---- MODULE Spec2Model ----
(***************************************************************************)
(* Model of the landsat-project backend: the S3Controller routes           *)
(* /s3/verify, /s3/object/*, /s3/get-geotiff-stream/* and /s3/get-geotiff/* *)
(* (src/src/main.ts) over the S3Service (src/src/s3/s3.service.ts).         *)
(*                                                                         *)
(* A request is handled by an async handler; every await and every stream  *)
(* event is a suspension point, so each action below is the code that runs *)
(* between two suspension points of one request.  The storage provider and *)
(* the raster decoder are the environment: their replies are chosen        *)
(* nondeterministically and recorded per request.                          *)
(***************************************************************************)
EXTENDS Integers, Sequences, FiniteSets, TLC

\* ------------------------------------------------------------------ bounds

\* Longest wildcard segment of a URL (in characters).
MaxKeyLen == 2
\* Most 'data' events a storage stream emits before it ends or fails.
MaxChunks == 2

\* ------------------------------------------------- constants of the program

HttpStatusOK == 200
HttpStatusNotFound == 404
HttpStatusInternalServerError == 500
\* statusCode of a fresh express response, before any res.status() call.
DefaultStatusCode == HttpStatusOK

bucketName == "usgs-landsat"

\* ------------------------------------------------------------- input sets

\* Two request slots: the smallest configuration with interleaving.
Requests == {1, 2}

\* Characters of a wildcard segment: an ordinary one, the separator, and the
\* backslash that the controllers normalise.
KeyChars == {"a", "/", "\\"}
Keys == UNION {[1..n -> KeyChars] : n \in 0..MaxKeyLen}
\* Keys used when two requests run concurrently.
ConcKeys == {<<"a">>, <<"\\">>}

\* Chunks a storage stream may deliver (distinct bytes, distinct lengths).
ChunkSet == {<<1>>, <<2, 3>>}

\* Messages of the errors the storage client raises.
SendErrors == {"NoSuchKey", "AccessDenied"}
StreamErrors == {"ECONNRESET"}
\* What the decoder may report for the first image of a container.
Images == {[width |-> 1, height |-> 2], [width |-> 2, height |-> 1]}
Rasters == {"bands"}

\* ------------------------------------------------------------ pure helpers

RECURSIVE Concat(_)
\* Buffer.concat(chunks): the chunks' bytes, in array order.
Concat(cs) == IF cs = <<>> THEN <<>> ELSE Head(cs) \o Concat(Tail(cs))

RECURSIVE SumLen(_)
SumLen(cs) == IF cs = <<>> THEN 0 ELSE Len(Head(cs)) + SumLen(Tail(cs))

IsPrefix(s, t) == Len(s) <= Len(t) /\ SubSeq(t, 1, Len(s)) = s

RECURSIVE sanitizedKeyFirstOnly(_)
\* key.replace(/\\/, '/') (no g flag): only the first backslash is replaced.
sanitizedKeyFirstOnly(key) ==
    IF key = <<>> THEN <<>>
    ELSE IF Head(key) = "\\" THEN <<"/">> \o Tail(key)
    ELSE <<Head(key)>> \o sanitizedKeyFirstOnly(Tail(key))

RECURSIVE sanitizedKey(_)
\* key.replace(/\\/g, '/')
sanitizedKey(key) ==
    IF key = <<>> THEN <<>>
    ELSE <<IF Head(key) = "\\" THEN "/" ELSE Head(key)>> \o sanitizedKey(Tail(key))

\* sanitizedKey.split('/').pop(): what follows the last '/'.
Basename(k) ==
    IF \E i \in 1..Len(k) : k[i] = "/"
    THEN LET last == CHOOSE i \in 1..Len(k) :
                        k[i] = "/" /\ \A j \in (i+1)..Len(k) : k[j] # "/"
         IN  SubSeq(k, last + 1, Len(k))
    ELSE k

\* ------------------------------------------------------ responses (express)

NoDisposition == [type |-> "", filename |-> <<>>]
NoJson == [kind |-> "none", authenticated |-> FALSE, message |-> "", key |-> <<>>,
           error |-> "", statusCode |-> 0, rasterData |-> "", width |-> 0,
           height |-> 0]

\* The response object a handler is given: nothing set, nothing sent.
FreshResponse ==
    [statusCode |-> DefaultStatusCode, headersSent |-> FALSE, contentType |-> "",
     disposition |-> NoDisposition, json |-> NoJson, body |-> <<>>,
     ended |-> FALSE, sends |-> 0]

\* res.status(code).json(obj), and Nest's serialisation of a returned object.
SendJson(r0, code, obj) ==
    [r0 EXCEPT !.statusCode = code, !.headersSent = TRUE,
               !.contentType = "application/json", !.json = obj,
               !.ended = TRUE, !.sends = @ + 1]

\* res.set({'Content-Type': ct, 'Content-Disposition': `${kind}; filename=...`})
SetHeaders(r0, ct, kind, skey) ==
    [r0 EXCEPT !.contentType = ct,
               !.disposition = [type |-> kind, filename |-> Basename(skey)]]

\* res.status(code).send(data)
SendBody(r0, code, data) ==
    [r0 EXCEPT !.statusCode = code, !.headersSent = TRUE, !.body = data,
               !.ended = TRUE, !.sends = @ + 1]

\* ------------------------------------------------------- S3Service results

NoResult == [state |-> "none", bytes |-> <<>>, message |-> ""]
Resolved(bytes) == [state |-> "resolved", bytes |-> bytes, message |-> ""]
Rejected(msg) == [state |-> "rejected", bytes |-> <<>>, message |-> msg]

\* verifyAWSAuthentication without its try/catch: the failure propagates.
verifyAWSAuthenticationNoCatch(sendOk) ==
    IF sendOk THEN [threw |-> FALSE, value |-> TRUE]
    ELSE [threw |-> TRUE, value |-> FALSE]

\* S3Service.verifyAWSAuthentication: true after the awaited send, false from
\* the catch block; nothing is rethrown.
verifyAWSAuthentication(sendOk) ==
    IF sendOk THEN [threw |-> FALSE, value |-> TRUE]
    ELSE [threw |-> FALSE, value |-> FALSE]

\* getObject's catch block throwing a new Error, as the two raster methods do.
getObjectCatchWrap(msg) == Rejected("Could not retrieve object")

\* getObject's catch block logging and returning instead of rethrowing.
getObjectCatchSwallow(msg) == Resolved(<<>>)

\* The catch block of S3Service.getObject: log, then rethrow the same error.
getObjectCatch(msg) == Rejected(msg)

\* The catch block of S3Service.getGeoTIFF: a new Error replaces the cause.
getGeoTIFFCatch(cause) == Rejected("Could not retrieve GeoTIFF data")

\* The catch block of S3Service.getGeoTIFFStream.
getGeoTIFFStreamCatch(cause) == Rejected("Could not retrieve GeoTIFF stream")

\* A 'data' listener that puts the newest chunk first.
onDataUnshift(chs, r, c) == [chs EXCEPT ![r] = <<c>> \o @]

\* A chunks array kept on the service instance: every buffering call sees
\* every push.
onDataShared(chs, r, c) == [q \in DOMAIN chs |-> Append(chs[q], c)]

\* streamToBuffer's 'data' listener: chunks.push(chunk) on the array that is
\* local to this call.
onData(chs, r, c) == [chs EXCEPT ![r] = Append(@, c)]

\* streamToBuffer's 'end' listener: resolve(Buffer.concat(chunks)).
onEnd(chs) == Resolved(Concat(chs))

\* A pipe that writes the newest chunk ahead of what is still queued.
pipeWriteReorder(q, c) == <<c>> \o q

\* stream.pipe(res): each chunk read from the source is written to the
\* response, behind the chunks already written.
pipeWrite(q, c) == Append(q, c)

\* ------------------------------------------------ S3Controller responses

\* The command object handed to s3Client.send.
GetObjectCommand(skey) ==
    [command |-> "GetObject", Bucket |-> bucketName, Key |-> skey,
     RequestPayer |-> "requester"]
ListBucketsCommand ==
    [command |-> "ListBuckets", Bucket |-> "", Key |-> <<>>, RequestPayer |-> ""]

\* S3Controller.verifyAWS: { authenticated: isAuthenticated }; an exception
\* escaping the handler is answered by the framework with a 500.
verifyAWS(r0, result) ==
    IF result.threw
    THEN SendJson(r0, HttpStatusInternalServerError,
                  [NoJson EXCEPT !.kind = "error", !.message = "Internal server error",
                                 !.statusCode = HttpStatusInternalServerError])
    ELSE SendJson(r0, HttpStatusOK,
                  [NoJson EXCEPT !.kind = "verify", !.authenticated = result.value])

\* The try branch of S3Controller.getObject after the awaited fetch.
getObjectOk(r0, skey, data) ==
    SendBody(SetHeaders(r0, "application/octet-stream", "attachment", skey),
             HttpStatusOK, data)

\* The catch branch of S3Controller.getObject.
getObjectFailed(r0, error) ==
    SendJson(r0, HttpStatusInternalServerError,
             [NoJson EXCEPT !.kind = "error",
                            !.message = "Error retrieving the object",
                            !.error = error.message])

\* A catch branch answering with the status of the buffered-object route.
notFoundAs500(r0, key) ==
    SendJson(r0, HttpStatusInternalServerError,
             [NoJson EXCEPT !.kind = "error", !.message = "Cannot GET /s3/get-geotiff/",
                            !.key = key, !.error = "Not Found",
                            !.statusCode = HttpStatusInternalServerError])

\* The catch branch of getGeoTIFFStream and of getGeoTIFF (the same in both):
\* the message carries the key as received, not the sanitized one.
notFound(r0, key) ==
    SendJson(r0, HttpStatusNotFound,
             [NoJson EXCEPT !.kind = "error", !.message = "Cannot GET /s3/get-geotiff/",
                            !.key = key, !.error = "Not Found",
                            !.statusCode = HttpStatusNotFound])

\* The try branch of S3Controller.getGeoTIFF after the awaited decode.
getGeoTIFFOk(r0, data) ==
    SendJson(r0, HttpStatusOK,
             [NoJson EXCEPT !.kind = "raster", !.rasterData = data.rasterData,
                            !.width = data.width, !.height = data.height])

\* ------------------------------------------------------------------ state

VARIABLES
    pc,         \* where the handling of each request stands
    route,      \* the route the request arrived on
    key,        \* @Param('0'): the wildcard segment as received
    s3calls,    \* the commands this request handed to s3Client.send
    sendReply,  \* how s3Client.send settled for this request
    stream,     \* response.Body: its state and the chunks it has emitted
    chunks,     \* the chunks array of this request's streamToBuffer call
    fetched,    \* how S3Service.getObject settled
    thrown,     \* message of the error the service threw to the controller
    decode,     \* the decoder calls made for this request and their results
    res,        \* the express response object
    outq,       \* chunks written to the response, not yet on the wire
    client      \* the bytes the client has received of a piped body

vars == <<pc, route, key, s3calls, sendReply, stream, chunks, fetched, thrown,
          decode, res, outq, client>>

NoReply == [status |-> "pending", message |-> ""]
NoStream == [state |-> "none", message |-> "", delivered |-> <<>>]
NoImage == [width |-> 0, height |-> 0]
NoDecode == [calls |-> <<>>, state |-> "none", image |-> NoImage, rasterData |-> ""]

Init ==
    /\ pc = [r \in Requests |-> "idle"]
    /\ route = [r \in Requests |-> "none"]
    /\ key = [r \in Requests |-> <<>>]
    /\ s3calls = [r \in Requests |-> <<>>]
    /\ sendReply = [r \in Requests |-> NoReply]
    /\ stream = [r \in Requests |-> NoStream]
    /\ chunks = [r \in Requests |-> <<>>]
    /\ fetched = [r \in Requests |-> NoResult]
    /\ thrown = [r \in Requests |-> ""]
    /\ decode = [r \in Requests |-> NoDecode]
    /\ res = [r \in Requests |-> FreshResponse]
    /\ outq = [r \in Requests |-> <<>>]
    /\ client = [r \in Requests |-> <<>>]

\* ---------------------------------------------------- a request arrives

\* GET /s3/verify: verifyAWS calls verifyAWSAuthentication, which awaits
\* s3Client.send(new ListBucketsCommand({})).
VerifyAWS(r) ==
    /\ pc[r] = "idle"
    /\ route' = [route EXCEPT ![r] = "verify"]
    /\ s3calls' = [s3calls EXCEPT ![r] = Append(@, ListBucketsCommand)]
    /\ pc' = [pc EXCEPT ![r] = "send"]
    /\ UNCHANGED <<key, sendReply, stream, chunks, fetched, thrown, decode, res,
                   outq, client>>

\* The three wildcard routes up to their first await: the key is sanitized
\* and a GetObjectCommand for it is handed to s3Client.send.
Arrive(r, rt, k) ==
    /\ pc[r] = "idle"
    /\ route' = [route EXCEPT ![r] = rt]
    /\ key' = [key EXCEPT ![r] = k]
    /\ s3calls' = [s3calls EXCEPT ![r] = Append(@, GetObjectCommand(sanitizedKey(k)))]
    /\ pc' = [pc EXCEPT ![r] = "send"]
    /\ UNCHANGED <<sendReply, stream, chunks, fetched, thrown, decode, res, outq,
                   client>>

\* GET /s3/object/*
GetObject(r, k) == Arrive(r, "object", k)
\* GET /s3/get-geotiff-stream/*
GetGeoTIFFStream(r, k) == Arrive(r, "stream", k)
\* GET /s3/get-geotiff/*
GetGeoTIFF(r, k) == Arrive(r, "geotiff", k)

\* ---------------------------------- after S3Service.getObject has settled

\* What follows once getObject(key) has settled with f, on the two routes
\* that buffer: /s3/object answers; getGeoTIFF goes on to the decoder if the
\* buffer arrived and otherwise throws, which its controller answers.
AfterFetch(r, f) ==
    /\ fetched' = [fetched EXCEPT ![r] = f]
    /\ IF route[r] = "object"
       THEN /\ pc' = [pc EXCEPT ![r] = "done"]
            /\ thrown' = [thrown EXCEPT ![r] = f.message]
            /\ res' = [res EXCEPT ![r] =
                          IF f.state = "resolved"
                          THEN getObjectOk(@, sanitizedKey(key[r]), f.bytes)
                          ELSE getObjectFailed(@, f)]
            /\ UNCHANGED decode
       ELSE IF f.state = "resolved"
       THEN /\ pc' = [pc EXCEPT ![r] = "fromArrayBuffer"]
            /\ decode' = [decode EXCEPT ![r].calls = Append(@, "fromArrayBuffer")]
            /\ UNCHANGED <<thrown, res>>
       ELSE /\ pc' = [pc EXCEPT ![r] = "done"]
            /\ thrown' = [thrown EXCEPT ![r] = getGeoTIFFCatch(f).message]
            /\ res' = [res EXCEPT ![r] = notFound(@, key[r])]
            /\ UNCHANGED decode

\* ------------------------------------------- s3Client.send settles

\* The awaited send rejects with an error whose message is msg.
SendRejects(r, msg) ==
    /\ pc[r] = "send"
    /\ sendReply' = [sendReply EXCEPT ![r] = [status |-> "error", message |-> msg]]
    /\ CASE route[r] = "verify" ->
              /\ res' = [res EXCEPT ![r] = verifyAWS(@, verifyAWSAuthentication(FALSE))]
              /\ pc' = [pc EXCEPT ![r] = "done"]
              /\ UNCHANGED <<fetched, thrown, decode>>
         [] route[r] = "stream" ->
              /\ thrown' = [thrown EXCEPT ![r] = getGeoTIFFStreamCatch(msg).message]
              /\ res' = [res EXCEPT ![r] = notFound(@, key[r])]
              /\ pc' = [pc EXCEPT ![r] = "done"]
              /\ UNCHANGED <<fetched, decode>>
         [] OTHER -> AfterFetch(r, getObjectCatch(msg))
    /\ UNCHANGED <<route, key, s3calls, stream, chunks, outq, client>>

\* The awaited send resolves.  verify answers; the buffering routes register
\* streamToBuffer's listeners on response.Body; getGeoTIFFStream returns the
\* stream, and its controller sets the headers and pipes it to the response.
SendResolves(r) ==
    /\ pc[r] = "send"
    /\ sendReply' = [sendReply EXCEPT ![r] = [status |-> "ok", message |-> ""]]
    /\ CASE route[r] = "verify" ->
              /\ res' = [res EXCEPT ![r] = verifyAWS(@, verifyAWSAuthentication(TRUE))]
              /\ pc' = [pc EXCEPT ![r] = "done"]
              /\ UNCHANGED stream
         [] route[r] = "stream" ->
              /\ res' = [res EXCEPT ![r] =
                            SetHeaders(@, "image/tiff", "inline", sanitizedKey(key[r]))]
              /\ stream' = [stream EXCEPT ![r].state = "open"]
              /\ pc' = [pc EXCEPT ![r] = "piping"]
         [] OTHER ->
              /\ stream' = [stream EXCEPT ![r].state = "open"]
              /\ pc' = [pc EXCEPT ![r] = "buffering"]
              /\ UNCHANGED res
    /\ UNCHANGED <<route, key, s3calls, chunks, fetched, thrown, decode, outq, client>>

\* ------------------------------------------- events of response.Body

\* The stream emits 'data' with chunk c.  While buffering, streamToBuffer's
\* listener pushes it; while piping, pipe writes it to the response, whose
\* headers (status 200, never changed) go out with the first write.
StreamData(r, c) ==
    /\ pc[r] \in {"buffering", "piping"}
    /\ stream[r].state = "open"
    /\ Len(stream[r].delivered) < MaxChunks
    /\ stream' = [stream EXCEPT ![r].delivered = Append(@, c)]
    /\ IF pc[r] = "buffering"
       THEN /\ chunks' = onData(chunks, r, c)
            /\ UNCHANGED <<outq, res>>
       ELSE /\ outq' = [outq EXCEPT ![r] = pipeWrite(@, c)]
            /\ res' = [res EXCEPT ![r].headersSent = TRUE]
            /\ UNCHANGED chunks
    /\ UNCHANGED <<pc, route, key, s3calls, sendReply, fetched, thrown, decode, client>>

\* The stream emits 'end'.  While buffering, the promise resolves with the
\* concatenated chunks and getObject returns them; while piping, pipe ends
\* the response.
StreamEnd(r) ==
    /\ pc[r] \in {"buffering", "piping"}
    /\ stream[r].state = "open"
    /\ stream' = [stream EXCEPT ![r].state = "end"]
    /\ IF pc[r] = "buffering"
       THEN AfterFetch(r, onEnd(chunks[r]))
       ELSE /\ res' = [res EXCEPT ![r].headersSent = TRUE, ![r].ended = TRUE,
                                  ![r].sends = @ + 1]
            /\ pc' = [pc EXCEPT ![r] = "done"]
            /\ UNCHANGED <<fetched, thrown, decode>>
    /\ UNCHANGED <<route, key, s3calls, sendReply, chunks, outq, client>>

\* The stream emits 'error'.  While buffering, the promise rejects and
\* getObject's catch block runs.  While piping, nothing listens: the
\* controller registered no 'error' listener and pipe neither forwards a
\* source error nor ends its destination, so no code of this request runs
\* again and the response stays as it is.
StreamError(r, msg) ==
    /\ pc[r] \in {"buffering", "piping"}
    /\ stream[r].state = "open"
    /\ stream' = [stream EXCEPT ![r].state = "error", ![r].message = msg]
    /\ IF pc[r] = "buffering"
       THEN AfterFetch(r, getObjectCatch(msg))
       ELSE /\ pc' = [pc EXCEPT ![r] = "done"]
            /\ UNCHANGED <<fetched, thrown, decode, res>>
    /\ UNCHANGED <<route, key, s3calls, sendReply, chunks, outq, client>>

\* The transport puts the oldest written chunk on the wire.
Transmit(r) ==
    /\ outq[r] # <<>>
    /\ client' = [client EXCEPT ![r] = @ \o Head(outq[r])]
    /\ outq' = [outq EXCEPT ![r] = Tail(@)]
    /\ UNCHANGED <<pc, route, key, s3calls, sendReply, stream, chunks, fetched,
                   thrown, decode, res>>

\* ------------------------------------------------- the decoder (geotiff)

\* await GeoTIFF.fromArrayBuffer(arrayBuffer) resolves; geoTiff.getImage() is
\* called next.
FromArrayBufferResolves(r) ==
    /\ pc[r] = "fromArrayBuffer"
    /\ decode' = [decode EXCEPT ![r].calls = Append(@, "getImage")]
    /\ pc' = [pc EXCEPT ![r] = "getImage"]
    /\ UNCHANGED <<route, key, s3calls, sendReply, stream, chunks, fetched, thrown,
                   res, outq, client>>

\* await geoTiff.getImage() resolves with img; image.readRasters() is called.
GetImageResolves(r, img) ==
    /\ pc[r] = "getImage"
    /\ decode' = [decode EXCEPT ![r].calls = Append(@, "readRasters"),
                                ![r].image = img]
    /\ pc' = [pc EXCEPT ![r] = "readRasters"]
    /\ UNCHANGED <<route, key, s3calls, sendReply, stream, chunks, fetched, thrown,
                   res, outq, client>>

\* await image.readRasters() resolves; getGeoTIFF returns
\* {rasterData, width, height} and the controller answers 200 with it.
ReadRastersResolves(r, raster) ==
    /\ pc[r] = "readRasters"
    /\ decode' = [decode EXCEPT ![r].state = "ok", ![r].rasterData = raster]
    /\ res' = [res EXCEPT ![r] =
                  getGeoTIFFOk(@, [rasterData |-> raster,
                                   width |-> decode[r].image.width,
                                   height |-> decode[r].image.height])]
    /\ pc' = [pc EXCEPT ![r] = "done"]
    /\ UNCHANGED <<route, key, s3calls, sendReply, stream, chunks, fetched, thrown,
                   outq, client>>

\* Any of the three awaited decoder calls rejects: getGeoTIFF's catch block
\* throws its own Error, which the controller answers.
DecoderRejects(r) ==
    /\ pc[r] \in {"fromArrayBuffer", "getImage", "readRasters"}
    /\ decode' = [decode EXCEPT ![r].state = "error"]
    /\ thrown' = [thrown EXCEPT ![r] = getGeoTIFFCatch(fetched[r]).message]
    /\ res' = [res EXCEPT ![r] = notFound(@, key[r])]
    /\ pc' = [pc EXCEPT ![r] = "done"]
    /\ UNCHANGED <<route, key, s3calls, sendReply, stream, chunks, fetched, outq,
                   client>>

\* ---------------------------------------------------------- specifications

\* Every step request r can take, with keys drawn from ks and chunks from cs.
Step(r, ks, cs) ==
    \/ VerifyAWS(r)
    \/ \E k \in ks : GetObject(r, k)
    \/ \E k \in ks : GetGeoTIFFStream(r, k)
    \/ \E k \in ks : GetGeoTIFF(r, k)
    \/ \E msg \in SendErrors : SendRejects(r, msg)
    \/ SendResolves(r)
    \/ \E c \in cs : StreamData(r, c)
    \/ StreamEnd(r)
    \/ \E msg \in StreamErrors : StreamError(r, msg)
    \/ Transmit(r)
    \/ FromArrayBufferResolves(r)
    \/ \E img \in Images : GetImageResolves(r, img)
    \/ \E raster \in Rasters : ReadRastersResolves(r, raster)
    \/ DecoderRejects(r)

\* One request, every key and every chunk.
Next == Step(1, Keys, ChunkSet)
Spec == Init /\ [][Next]_vars

\* Both requests in flight together, their steps interleaved in any order.
ConcNext == \E r \in Requests : Step(r, ConcKeys, ChunkSet)
ConcSpec == Init /\ [][ConcNext]_vars

\* ------------------------------------------------------------------ claims

\* What the environment did for request r.
SendOk(r) == sendReply[r].status = "ok"
SendFailed(r) == sendReply[r].status = "error"
StreamEnded(r) == stream[r].state = "end"
StreamFailed(r) == stream[r].state = "error"
Received(r) == Concat(stream[r].delivered)
Raster(r) == route[r] \in {"stream", "geotiff"}
Keyed(r) == route[r] \in {"object", "stream", "geotiff"}

Is404(r) ==
    /\ res[r].headersSent /\ res[r].ended
    /\ res[r].statusCode = 404
    /\ res[r].json.error = "Not Found"
    /\ res[r].json.statusCode = 404
Sent200(r) == res[r].headersSent /\ res[r].statusCode = 200

\* C1: a finished /s3/verify request was answered 200 with
\* {authenticated: b}, b being true exactly when the probe succeeded; the
\* probe's failure never surfaces as an error response.
C1_VerifyNeverFails ==
    \A r \in Requests :
        (route[r] = "verify" /\ pc[r] = "done") =>
            /\ res[r].statusCode = 200
            /\ res[r].ended /\ res[r].sends = 1
            /\ res[r].json.kind = "verify"
            /\ res[r].json.authenticated = SendOk(r)

\* C1 witness: a verify request whose probe failed has been answered.
C1_Witness ==
    \E r \in Requests :
        /\ route[r] = "verify" /\ pc[r] = "done" /\ SendFailed(r)
        /\ res[r].json.authenticated = FALSE

\* C2 as stated: on the raster routes every failure of the request (of the
\* storage call, of the storage stream, of the decoder) is answered 404
\* "Not Found", and a 200 is sent only if the storage call (and the decode)
\* succeeded.  Stated for requests with a non-empty key, so that it does not
\* rest on the empty key of C6.
C2_EveryFailureIs404 ==
    \A r \in Requests :
        (Raster(r) /\ key[r] # <<>>) =>
            /\ (SendFailed(r) \/ StreamFailed(r) \/ decode[r].state = "error")
                   => Is404(r)
            /\ Sent200(r) =>
                   (SendOk(r) /\ (route[r] = "geotiff" => decode[r].state = "ok"))

\* C2 amended: on the raster routes every failure that reaches the controller
\* as an exception (the storage call failing on either route; on the decode
\* route also a stream error while buffering, or a decoder failure) is
\* answered 404 "Not Found", nothing else is, and a 200 is sent only if the
\* storage call (and, on the decode route, the decode) succeeded.
C2_ThrownFailureIs404 ==
    \A r \in Requests :
        Raster(r) =>
            /\ (\/ SendFailed(r)
                \/ decode[r].state = "error"
                \/ (route[r] = "geotiff" /\ StreamFailed(r))) <=> Is404(r)
            /\ Is404(r) <=> thrown[r] # ""
            /\ Sent200(r) =>
                   (SendOk(r) /\ (route[r] = "geotiff" => decode[r].state = "ok"))

\* C2 witness: the decode route answered 404 for a decoder failure that came
\* after a complete fetch.
C2_Witness ==
    \E r \in Requests :
        /\ route[r] = "geotiff" /\ pc[r] = "done"
        /\ StreamEnded(r) /\ decode[r].state = "error" /\ Is404(r)

\* C3: a finished /s3/object request ended in exactly one of two ways: the
\* fetch succeeded and the answer is 200 with the object's bytes,
\* application/octet-stream and an attachment disposition; or it failed and
\* the answer is 500 with {message: "Error retrieving the object", error:
\* the storage error's message}.  Nothing is sent before that.
C3_ObjectOutcome ==
    \A r \in Requests :
        route[r] = "object" =>
            IF pc[r] # "done" THEN ~res[r].headersSent /\ res[r].sends = 0
            ELSE /\ res[r].ended /\ res[r].sends = 1
                 /\ IF SendOk(r) /\ StreamEnded(r)
                    THEN /\ res[r].statusCode = 200
                         /\ res[r].body = Received(r)
                         /\ res[r].contentType = "application/octet-stream"
                         /\ res[r].disposition.type = "attachment"
                         /\ res[r].json = NoJson
                    ELSE /\ res[r].statusCode = 500
                         /\ res[r].body = <<>>
                         /\ res[r].json.message = "Error retrieving the object"
                         /\ res[r].json.error =
                                (IF SendFailed(r) THEN sendReply[r].message
                                 ELSE stream[r].message)

\* C3 witness: an /s3/object request failed by a stream error after part of
\* the object had arrived, and was answered 500.
C3_Witness ==
    \E r \in Requests :
        /\ route[r] = "object" /\ pc[r] = "done"
        /\ StreamFailed(r) /\ stream[r].delivered # <<>>
        /\ res[r].statusCode = 500

\* C4: every GetObject command issued on the three object routes carries the
\* received key with each backslash replaced by a forward slash and every
\* other character unchanged; none carries a backslash.
C4_KeySanitized ==
    \A r \in Requests :
        /\ (Keyed(r) /\ pc[r] # "idle") => Len(s3calls[r]) = 1
        /\ \A i \in DOMAIN s3calls[r] :
              s3calls[r][i].command = "GetObject" =>
                  LET sent == s3calls[r][i].Key IN
                  /\ Len(sent) = Len(key[r])
                  /\ \A j \in 1..Len(sent) :
                        /\ sent[j] # "\\"
                        /\ sent[j] = (IF key[r][j] = "\\" THEN "/" ELSE key[r][j])

\* C4 witness: a storage call was issued for a key holding two backslashes.
C4_Witness ==
    \E r \in Requests :
        /\ Keyed(r) /\ Len(s3calls[r]) = 1
        /\ Cardinality({j \in 1..Len(key[r]) : key[r][j] = "\\"}) >= 2

\* C5: the decoder is invoked only on the decode route and only after the
\* storage call succeeded and the storage stream reached its end; on the
\* streaming route, and after a failed fetch, it is never invoked.
C5_DecodeAfterFetch ==
    \A r \in Requests :
        decode[r].calls # <<>> =>
            /\ route[r] = "geotiff"
            /\ SendOk(r) /\ StreamEnded(r)
            /\ fetched[r].state = "resolved"

\* C5 witness: the decode route ran all three decoder calls on a fetched,
\* non-empty object.
C5_Witness ==
    \E r \in Requests :
        /\ route[r] = "geotiff" /\ Len(decode[r].calls) = 3
        /\ stream[r].delivered # <<>>

\* C6: every GetObject command is issued with a non-empty key.
C6_KeyNeverEmpty ==
    \A r \in Requests :
        \A i \in DOMAIN s3calls[r] :
            s3calls[r][i].command = "GetObject" => s3calls[r][i].Key # <<>>

\* C7: getObject resolves only after the stream's end, with the bytes of all
\* delivered chunks in delivery order (their length the sum of the chunk
\* lengths); it has not settled while the stream is open, and after a stream
\* error it has rejected with no bytes.
C7_BufferComplete ==
    \A r \in Requests :
        route[r] \in {"object", "geotiff"} =>
            /\ fetched[r].state = "resolved" =>
                  /\ StreamEnded(r)
                  /\ fetched[r].bytes = Received(r)
                  /\ Len(fetched[r].bytes) = SumLen(stream[r].delivered)
            /\ stream[r].state = "open" => fetched[r].state = "none"
            /\ StreamFailed(r) => fetched[r] = Rejected(stream[r].message)

\* C7 witness: getObject resolved with an object that arrived in two
\* different chunks.
C7_Witness ==
    \E r \in Requests :
        /\ fetched[r].state = "resolved"
        /\ Len(stream[r].delivered) = 2
        /\ stream[r].delivered[1] # stream[r].delivered[2]

\* A request's inputs, the replies its collaborators gave it, and all that
\* its client is sent.
Inputs(r) == <<route[r], key[r]>>
Replies(r) == <<sendReply[r], stream[r], decode[r]>>
Response(r) == <<res[r], client[r] \o Concat(outq[r])>>

C9_StreamInOrder ==
    \A r \in Requests :
        route[r] = "stream" =>
            /\ IsPrefix(client[r], Received(r))
            /\ client[r] \o Concat(outq[r]) = Received(r)
            /\ (StreamEnded(r) /\ outq[r] = <<>>) => client[r] = Received(r)

\* C9 witness: a streaming download of two different chunks ran to its end
\* and the client has received all of it.
C9_Witness ==
    \E r \in Requests :
        /\ route[r] = "stream" /\ StreamEnded(r) /\ outq[r] = <<>>
        /\ Len(stream[r].delivered) = 2
        /\ stream[r].delivered[1] # stream[r].delivered[2]
        /\ client[r] = Received(r)

\* C10: no response is sent twice, and once no code of a request remains to
\* run its response has been ended, by exactly one send.  The second part is
\* stated for requests with a non-empty key, so that it does not rest on the
\* empty key of C6.
C10_ResponseCompleted ==
    \A r \in Requests :
        /\ res[r].sends <= 1
        /\ (pc[r] = "done" /\ (Keyed(r) => key[r] # <<>>))
               => (res[r].ended /\ res[r].sends = 1)

====
